---- MODULE Spec2Model ----
(***************************************************************************)
(* Model of the BlueNRG SPI transport (src/src/lib.rs): the write and read *)
(* calls of ActiveBlueNRG, the handshake, the pull loop into the receive   *)
(* ring buffer and the extraction of event frames.                         *)
(*                                                                         *)
(* The ring buffer (mod cb) and the HCI library (extern crate ble) are not *)
(* part of src/src/lib.rs.  The ring buffer is modelled from its           *)
(* description: a backing store, a read cursor, a write cursor and a count *)
(* of valid bytes.  The event decoder is an external function: its result  *)
(* is a nondeterministic choice between an event and a decode error.       *)
(***************************************************************************)
EXTENDS Integers, Sequences, FiniteSets, TLC

VARIABLES
    chip_select,      \* level of the chip-select output pin: "high" | "low"
    data_ready,       \* what BlueNRG::data_ready() returned in this call
    rx_buffer,        \* the ring buffer: [store, read, write, count]
    pc,               \* position of the driver inside the current call
    hdr_len,          \* write(): header.len()
    pay_len,          \* write(): payload.len()
    bytes_available,  \* read_available_data(): the remaining-byte counter
    data_result,      \* try_read(): result of read_available_data()
    event_result,     \* try_read(): result of take_next_event()
    spi_header,       \* write_header / read_header after the handshake transfer
    write_len,        \* try_write(): the decoded write capacity
    result,           \* the value the call returns ("none" until it is decided)
    cs_ops,           \* history: chip-select operations of the current / last call
    bus,              \* history: bus operations of the call in progress
    radio,            \* bytes the radio still holds for the host
    sent,             \* history: the frames the radio was given to deliver
    extracted,        \* history: the frames take_next_event has extracted
    clean,            \* history: every pull so far was fault-free and honest
    take_len,         \* history: last length passed to take_slice (-1: none)
    rx_at_call,       \* history: rx_buffer when the current call began
    appended,         \* history: the bytes written into windows of rx_buffer
    window            \* history: the call's last request to next_mut_slice

vars == <<chip_select, data_ready, rx_buffer, pc, hdr_len, pay_len,
          bytes_available, data_result, event_result, spi_header, write_len,
          result, cs_ops, bus, radio, sent, extracted, clean, take_len,
          rx_at_call, appended, window>>

----------------------------------------------------------------------------
(* Bounds of the model *)

RxCapacity == 4        \* length of the caller-supplied backing store
MaxFrames == 2         \* frames the radio is given to deliver

\* read calls stop once this many frames were extracted
MaxExtracted == MaxFrames + 1

(* Program constants *)

BNRG_READY == 2
WRITE_REQUEST == 10
READ_REQUEST == 11
SPI_HEADER_LENGTH == 5
MAX_EVENT_SIZE == 128
\* ble::hci::EVENT_PACKET_HEADER_LENGTH: the event code and the parameter
\* length, the byte take_next_event peeks at offset 1
EVENT_PACKET_HEADER_LENGTH == 2
\* width of usize: at least 16 bits on every target; a wrapped counter is
\* larger than any store length at every width
UsizeBits == 16

UsizeModulus == 2 ^ UsizeBits

HeaderLens == {2}       \* header.len() of the write calls
PayloadLens == {0, 1}   \* payload.len() of the write calls
WriteCapacities == {1, 2, 3}   \* byte 1 of a handshake reply
EventCodes == {14}      \* event codes of the frames the radio sends
ParamLens == {0, 1, 2}  \* parameter lengths of the frames the radio sends
ParamBytes == {1}       \* parameter bytes of the frames the radio sends
FillerBytes == {0}      \* what the radio clocks out when it has nothing left
StatusBytes == {BNRG_READY, 0, 255}   \* byte 0 of a handshake reply
HighBytes == {0, 1}                   \* bytes 2 and 4 of a handshake reply

----------------------------------------------------------------------------
(* Ring buffer (mod cb) *)

Capacity(b) == Len(b.store)

available_len(b) == b.count

\* variant: the free capacity is reported, whether or not it is contiguous
next_contiguous_slice_len_free(b) == Capacity(b) - b.count

next_contiguous_slice_len(b) ==
    IF b.count >= Capacity(b) THEN 0
    ELSE IF b.write >= b.read THEN Capacity(b) - b.write
    ELSE b.read - b.write

\* the byte at offset from the read cursor
peek(b, offset) == b.store[((b.read + offset) % Capacity(b)) + 1]

\* next_mut_slice(n) followed by the caller's fill of the window with data
FillWindow(b, data) ==
    LET n == Len(data) IN
    [b EXCEPT !.store = [i \in 1..Capacity(b) |->
                            IF i - 1 >= b.write /\ i - 1 < b.write + n
                            THEN data[i - b.write] ELSE b.store[i]],
              !.write = (b.write + n) % Capacity(b),
              !.count = b.count + n]

\* the n bytes take_slice copies out
TakenBytes(b, n) == [i \in 1..n |-> peek(b, i - 1)]

\* the buffer after take_slice(n, out)
take_slice(b, n) ==
    [b EXCEPT !.read = (b.read + n) % Capacity(b),
              !.count = b.count - n]

EmptyBuffer(n) == [store |-> [i \in 1..n |-> 0], read |-> 0, write |-> 0, count |-> 0]

----------------------------------------------------------------------------
(* Pin and bus operations, as the bus observes them *)

\* no window was requested; otherwise the length asked of next_mut_slice,
\* with next_contiguous_slice_len() and bytes_available at the request
NoWindow == [len |-> 0, contiguous |-> 0, remaining |-> 0]

\* the handshake buffer outside a call and before the transfer has completed
NoHeader == <<-1, -1, -1, -1, -1>>
\* header[0]: the status byte of the reply
spi_status == spi_header[1]

Handshake(request, ok) ==
    [op |-> "handshake", len |-> SPI_HEADER_LENGTH, ok |-> ok, tx |-> request]
BusWrite(what, n, ok) == [op |-> what, len |-> n, ok |-> ok, tx |-> <<>>]
DataTransfer(n, ok) == [op |-> "data", len |-> n, ok |-> ok, tx |-> <<>>]

\* replies the radio can clock back during a handshake
\* byte 3: small values, the store's length, and what the radio still holds
ReadCapacities(b) ==
    (0..RxCapacity) \cup {Capacity(b) % 256} \cup {Len(radio) % 256}
Replies(b) ==
    {<<s, w0, 0, r0, 0>> : s \in StatusBytes, w0 \in WriteCapacities,
                           r0 \in ReadCapacities(b)}
    \cup {<<s, 0, w1, 0, r1>> : s \in StatusBytes, w1 \in HighBytes, r1 \in HighBytes}
    \cup {<<s, 255, 255, 255, 255>> : s \in StatusBytes}

\* variables a step of one path leaves alone
write_locals == <<hdr_len, pay_len, write_len>>
read_locals == <<bytes_available, data_result, event_result>>
radio_side == <<data_ready, radio, sent>>
frame_history == <<extracted, clean, take_len, appended, window>>

----------------------------------------------------------------------------
(* Handshake decoding *)

\* variant: the ready marker is looked for in byte 1 instead of byte 0
parse_spi_header_byte1(h) ==
    IF h[2] # BNRG_READY
    THEN [ready |-> FALSE, write_len |-> 0, read_len |-> 0]
    ELSE [ready |-> TRUE,
          write_len |-> (h[3] * 256 + h[2]) % 65536,
          read_len |-> (h[5] * 256 + h[4]) % 65536]

\* variant: the two lengths are returned in the other order
parse_spi_header_swapped(h) ==
    IF h[1] # BNRG_READY
    THEN [ready |-> FALSE, write_len |-> 0, read_len |-> 0]
    ELSE [ready |-> TRUE,
          write_len |-> (h[5] * 256 + h[4]) % 65536,
          read_len |-> (h[3] * 256 + h[2]) % 65536]

\* lib.rs parse_spi_header: header is the 5-byte reply (header[0] is h[1])
parse_spi_header(h) ==
    IF h[1] # BNRG_READY
    THEN [ready |-> FALSE, write_len |-> 0, read_len |-> 0]
    ELSE [ready |-> TRUE,
          write_len |-> (h[3] * 256 + h[2]) % 65536,
          read_len |-> (h[5] * 256 + h[4]) % 65536]

\* lib.rs max
max(lhs, rhs) == IF lhs < rhs THEN rhs ELSE lhs

----------------------------------------------------------------------------
(* Controller::write *)

\* variant: try_write is called without chip-select having been driven low
write_begin_unselected ==
    /\ pc = "idle"
    /\ \E h \in HeaderLens, p \in PayloadLens :
          /\ hdr_len' = h
          /\ pay_len' = p
    /\ cs_ops' = <<>>
    /\ bus' = <<>>
    /\ result' = "none"
    /\ rx_at_call' = rx_buffer
    /\ pc' = "try_write"
    /\ UNCHANGED <<chip_select, rx_buffer, spi_header, write_len, read_locals,
                   radio_side, frame_history>>

\* lib.rs write, line 152: chip-select low, then try_write
write_begin ==
    /\ pc = "idle"
    /\ \E h \in HeaderLens, p \in PayloadLens :
          /\ hdr_len' = h
          /\ pay_len' = p
    /\ chip_select' = "low"
    /\ cs_ops' = <<"set_low">>
    /\ bus' = <<>>
    /\ result' = "none"
    /\ rx_at_call' = rx_buffer
    /\ pc' = "try_write"
    /\ UNCHANGED <<rx_buffer, spi_header, write_len, read_locals, radio_side,
                   frame_history>>

\* variant: the capacity is compared with the header's length alone
WriteWouldBlock_header_only(capacity, h, p) == capacity < h

\* variant: a capacity equal to the total length is refused
WriteWouldBlock_inclusive(capacity, h, p) == capacity <= h + p

\* try_write's capacity test, line 62
WriteWouldBlock(capacity, h, p) == capacity < h + p

\* try_write, lines 56-64: the handshake transfer and the capacity test
try_write_handshake ==
    /\ pc = "try_write"
    /\ LET request == <<WRITE_REQUEST, 0, 0, 0, 0>> IN
       \/ \* the transfer faults: line 59 returns the communication error
          /\ bus' = Append(bus, Handshake(request, FALSE))
          /\ result' = "Comm"
          /\ pc' = "write_return"
          /\ UNCHANGED <<spi_header, write_len>>
       \/ \E reply \in Replies(rx_buffer) :
            LET parsed == parse_spi_header(reply) IN
            /\ bus' = Append(bus, Handshake(request, TRUE))
            /\ spi_header' = reply
            /\ IF ~parsed.ready THEN
                   /\ result' = "WouldBlock"
                   /\ pc' = "write_return"
                   /\ UNCHANGED write_len
               ELSE
                   /\ write_len' = parsed.write_len
                   /\ IF WriteWouldBlock(parsed.write_len, hdr_len, pay_len)
                      THEN /\ result' = "WouldBlock"
                           /\ pc' = "write_return"
                      ELSE /\ result' = "none"
                           /\ pc' = "write_header"
    /\ UNCHANGED <<chip_select, cs_ops, rx_buffer, hdr_len, pay_len,
                   read_locals, radio_side, frame_history, rx_at_call>>

\* variant: the result of the header's write is dropped
try_write_header_unchecked ==
    /\ pc = "write_header"
    /\ \E fault \in BOOLEAN :
          bus' = Append(bus, BusWrite("write_header", hdr_len, ~fault))
    /\ result' = "none"
    /\ pc' = "write_payload"
    /\ UNCHANGED <<chip_select, cs_ops, rx_buffer, spi_header, write_locals,
                   read_locals, radio_side, frame_history, rx_at_call>>

\* try_write, lines 66-68: the header goes out as one write-only transfer
try_write_header ==
    /\ pc = "write_header"
    /\ \E fault \in BOOLEAN :
          /\ bus' = Append(bus, BusWrite("write_header", hdr_len, ~fault))
          /\ IF fault THEN /\ result' = "Comm"
                            /\ pc' = "write_return"
                       ELSE /\ result' = "none"
                            /\ pc' = "write_payload"
    /\ UNCHANGED <<chip_select, cs_ops, rx_buffer, spi_header, write_locals,
                   read_locals, radio_side, frame_history, rx_at_call>>

\* try_write, lines 69-73: the payload goes out as one write-only transfer
try_write_payload ==
    /\ pc = "write_payload"
    /\ \E fault \in BOOLEAN :
          /\ bus' = Append(bus, BusWrite("write_payload", pay_len, ~fault))
          /\ result' = IF fault THEN "Comm" ELSE "Ok"
    /\ pc' = "write_return"
    /\ UNCHANGED <<chip_select, cs_ops, rx_buffer, spi_header, write_locals,
                   read_locals, radio_side, frame_history, rx_at_call>>

\* variant: the result is propagated with `?` before chip-select is released
write_end_on_success ==
    /\ pc = "write_return"
    /\ IF result = "Ok"
       THEN /\ chip_select' = "high"
            /\ cs_ops' = Append(cs_ops, "set_high")
       ELSE UNCHANGED <<chip_select, cs_ops>>
    /\ pc' = "idle"
    /\ hdr_len' = 0
    /\ pay_len' = 0
    /\ spi_header' = NoHeader
    /\ write_len' = -1
    /\ bus' = <<>>
    /\ UNCHANGED <<rx_buffer, result, read_locals, radio_side, frame_history,
                   rx_at_call>>

\* lib.rs write, lines 154-156: chip-select high, the result is returned and
\* the call's locals go out of scope
write_end ==
    /\ pc = "write_return"
    /\ chip_select' = "high"
    /\ cs_ops' = Append(cs_ops, "set_high")
    /\ pc' = "idle"
    /\ hdr_len' = 0
    /\ pay_len' = 0
    /\ spi_header' = NoHeader
    /\ write_len' = -1
    /\ bus' = <<>>
    /\ UNCHANGED <<rx_buffer, result, read_locals, radio_side, frame_history,
                   rx_at_call>>

----------------------------------------------------------------------------
(* Frames held by the radio *)

Frame(code, params) == <<code, Len(params)>> \o params

Frames ==
    UNION {{Frame(c, ps) : c \in EventCodes, ps \in [1..n -> ParamBytes]} :
           n \in ParamLens}

RECURSIVE Flatten(_)
Flatten(fs) == IF fs = <<>> THEN <<>> ELSE Head(fs) \o Flatten(Tail(fs))

Streams == UNION {[1..k -> Frames] : k \in 0..MaxFrames}

\* what a data transfer of n words yields: the radio's next bytes, then filler
Delivered(pending, n, filler) ==
    [i \in 1..n |-> IF i <= Len(pending) THEN pending[i] ELSE filler]

Remaining(pending, n) ==
    IF n >= Len(pending) THEN <<>> ELSE SubSeq(pending, n + 1, Len(pending))

----------------------------------------------------------------------------
(* Controller::read *)

\* variant: chip-select is left alone until the readiness pin has been read
read_begin_unselected ==
    /\ pc = "idle"
    /\ Len(extracted) < MaxExtracted
    /\ cs_ops' = <<>>
    /\ bus' = <<>>
    /\ result' = "none"
    /\ rx_at_call' = rx_buffer
    /\ pc' = "read_available_data"
    /\ UNCHANGED <<chip_select, rx_buffer, spi_header, write_locals,
                   read_locals, radio_side, frame_history>>

\* lib.rs read, line 160: chip-select low, then try_read
read_begin ==
    /\ pc = "idle"
    /\ Len(extracted) < MaxExtracted
    /\ chip_select' = "low"
    /\ cs_ops' = <<"set_low">>
    /\ bus' = <<>>
    /\ result' = "none"
    /\ rx_at_call' = rx_buffer
    /\ pc' = "read_available_data"
    /\ UNCHANGED <<rx_buffer, spi_header, write_locals, read_locals,
                   radio_side, frame_history>>

\* variant: the readiness pin is read but its level is not acted on
read_available_data_unpolled ==
    /\ pc = "read_available_data"
    /\ \E is_high \in BOOLEAN : data_ready' = is_high
    /\ data_result' = "none"
    /\ pc' = "read_handshake"
    /\ UNCHANGED <<chip_select, cs_ops, bus, rx_buffer, spi_header, result,
                   write_locals, bytes_available, event_result, radio, sent,
                   frame_history, rx_at_call>>

\* read_available_data, lines 91-93 and data_ready, lines 202-204: the
\* readiness pin is read first; its level is the radio's to set
read_available_data_ready ==
    /\ pc = "read_available_data"
    /\ \E is_high \in BOOLEAN :
          /\ data_ready' = is_high
          /\ IF ~is_high
             THEN /\ data_result' = "WouldBlock"
                  /\ pc' = "take_next_event"
             ELSE /\ data_result' = "none"
                  /\ pc' = "read_handshake"
    /\ UNCHANGED <<chip_select, cs_ops, bus, rx_buffer, spi_header, result,
                   write_locals, bytes_available, event_result, radio, sent,
                   frame_history, rx_at_call>>

\* read_available_data, lines 95-101: the handshake of a read request
read_available_data_handshake ==
    /\ pc = "read_handshake"
    /\ LET request == <<READ_REQUEST, 0, 0, 0, 0>> IN
       \/ \* the transfer faults: line 98 returns the communication error
          /\ bus' = Append(bus, Handshake(request, FALSE))
          /\ data_result' = "Comm"
          /\ clean' = FALSE
          /\ pc' = "take_next_event"
          /\ UNCHANGED <<spi_header, bytes_available>>
       \/ \E reply \in Replies(rx_buffer) :
            LET parsed == parse_spi_header(reply) IN
            /\ bus' = Append(bus, Handshake(request, TRUE))
            /\ spi_header' = reply
            /\ IF ~parsed.ready THEN
                   /\ data_result' = "WouldBlock"
                   /\ pc' = "take_next_event"
                   /\ UNCHANGED <<bytes_available, clean>>
               ELSE
                   /\ bytes_available' = parsed.read_len
                   /\ clean' = (clean /\ parsed.read_len <= Len(radio))
                   /\ data_result' = "none"
                   /\ pc' = "read_loop"
    /\ UNCHANGED <<chip_select, cs_ops, rx_buffer, result, write_locals,
                   event_result, radio_side, extracted, take_len, rx_at_call,
                   appended, window>>

\* where a transfer of n words may fault: at its first or at its last word
FaultPositions(n) == {0, n - 1}

\* the loop's transfer length, lines 103-106
transfer_count(remaining, b) == max(remaining, next_contiguous_slice_len(b))

\* lines 108-116: the duplex transfer into the window of n bytes and the
\* update of the remaining-byte counter
PullWindow(n) ==
    \E fault_at \in FaultPositions(n) \cup {n}, filler \in FillerBytes :
       \* fault_at = n: no fault; fault_at = k < n: word k faults, the k words
       \* before it were exchanged, the rest of the window keeps its zeros
       LET got == Delivered(radio, fault_at, filler)
           data == [i \in 1..n |-> IF i <= fault_at THEN got[i] ELSE 0]
       IN /\ rx_buffer' = FillWindow(rx_buffer, data)
          /\ appended' = appended \o data
          /\ radio' = Remaining(radio, fault_at)
          /\ bus' = Append(bus, DataTransfer(n, fault_at = n))
          /\ IF fault_at < n THEN
                 /\ data_result' = "Comm"
                 /\ clean' = FALSE
                 /\ pc' = "take_next_event"
                 /\ UNCHANGED bytes_available
             ELSE IF bytes_available - n >= 0 THEN
                 /\ bytes_available' = bytes_available - n
                 /\ pc' = "read_loop"
                 /\ UNCHANGED <<data_result, clean>>
             ELSE
                 \* line 116 underflows: a build with overflow checks panics,
                 \* a build without them wraps
                 \/ /\ pc' = "panic"
                    /\ UNCHANGED <<bytes_available, data_result, clean>>
                 \/ /\ bytes_available' = (bytes_available - n) % UsizeModulus
                    /\ pc' = "read_loop"
                    /\ UNCHANGED <<data_result, clean>>

\* read_available_data, lines 102-119: one turn of the pull loop, or its exit
read_available_data_loop ==
    /\ pc = "read_loop"
    /\ IF bytes_available > 0 /\ next_contiguous_slice_len(rx_buffer) > 0
       THEN LET n == transfer_count(bytes_available, rx_buffer) IN
            /\ window' = [len |-> n,
                          contiguous |-> next_contiguous_slice_len(rx_buffer),
                          remaining |-> bytes_available]
            /\ IF n <= next_contiguous_slice_len(rx_buffer)
               THEN PullWindow(n)
               ELSE \* next_mut_slice is asked for more than the contiguous
                    \* region, which it leaves undefined: it panics, or, when
                    \* the window still lies inside the backing store, hands
                    \* it out over unread bytes
                    \/ /\ pc' = "panic"
                       /\ UNCHANGED <<rx_buffer, radio, bus, bytes_available,
                                      data_result, clean, appended>>
                    \/ /\ rx_buffer.write + n <= Capacity(rx_buffer)
                       /\ PullWindow(n)
       ELSE /\ data_result' = "Ok"
            /\ pc' = "take_next_event"
            /\ UNCHANGED <<rx_buffer, radio, bus, bytes_available, clean,
                           appended, window>>
    /\ UNCHANGED <<chip_select, cs_ops, data_ready, spi_header, result,
                   write_locals, event_result, sent, extracted, take_len,
                   rx_at_call>>

\* take_next_event, line 127 and the length of lines 128 and 136
FrameLength(b) == EVENT_PACKET_HEADER_LENGTH + peek(b, 1)

\* variant: only the header's presence is tested
FrameBuffered_header_only(b) ==
    ~(available_len(b) < EVENT_PACKET_HEADER_LENGTH)

\* take_next_event, lines 123-130: is a whole frame buffered
FrameBuffered(b) ==
    IF available_len(b) < EVENT_PACKET_HEADER_LENGTH THEN FALSE
    ELSE ~(available_len(b) < FrameLength(b))

\* variant: a failed pull is returned before the buffer is looked at
try_read_result_pull_first(data, event) ==
    IF data # "Ok" THEN data ELSE event

\* variant: every failure of the pull is reported as not-ready
try_read_result_swallow(data, event) ==
    IF event = "WouldBlock" THEN "WouldBlock" ELSE event

\* try_read, lines 81-87: the call's result from the two partial results
try_read_result(data, event) ==
    IF event = "WouldBlock"
    THEN (IF data = "Ok" THEN "WouldBlock" ELSE data)
    ELSE event

\* variant: the extraction is decided on the buffer as it was before the pull
take_next_event_before_pull ==
    /\ pc = "take_next_event"
    /\ IF ~FrameBuffered(rx_at_call) THEN
           /\ event_result' = "WouldBlock"
           /\ result' = try_read_result(data_result, "WouldBlock")
           /\ pc' = "read_return"
           /\ UNCHANGED <<rx_buffer, extracted, take_len>>
       ELSE IF FrameLength(rx_buffer) > MAX_EVENT_SIZE THEN
           \* take_slice copies past the end of the scratch array: a panic
           /\ take_len' = FrameLength(rx_buffer)
           /\ pc' = "panic"
           /\ UNCHANGED <<rx_buffer, extracted, event_result, result>>
       ELSE
           /\ take_len' = FrameLength(rx_buffer)
           /\ extracted' = Append(extracted,
                                  TakenBytes(rx_buffer, FrameLength(rx_buffer)))
           /\ rx_buffer' = take_slice(rx_buffer, FrameLength(rx_buffer))
           /\ \E decoded \in {"Event", "BLE"} :
                 /\ event_result' = decoded
                 /\ result' = try_read_result(data_result, decoded)
           /\ pc' = "read_return"
    /\ UNCHANGED <<chip_select, cs_ops, bus, spi_header, write_locals,
                   bytes_available, data_result, radio_side, clean, rx_at_call,
                   appended, window>>

\* take_next_event, lines 122-139, and try_read's match on its result
take_next_event ==
    /\ pc = "take_next_event"
    /\ IF ~FrameBuffered(rx_buffer) THEN
           /\ event_result' = "WouldBlock"
           /\ result' = try_read_result(data_result, "WouldBlock")
           /\ pc' = "read_return"
           /\ UNCHANGED <<rx_buffer, extracted, take_len>>
       ELSE IF FrameLength(rx_buffer) > MAX_EVENT_SIZE THEN
           \* take_slice copies past the end of the scratch array: a panic
           /\ take_len' = FrameLength(rx_buffer)
           /\ pc' = "panic"
           /\ UNCHANGED <<rx_buffer, extracted, event_result, result>>
       ELSE
           /\ take_len' = FrameLength(rx_buffer)
           /\ extracted' = Append(extracted,
                                  TakenBytes(rx_buffer, FrameLength(rx_buffer)))
           /\ rx_buffer' = take_slice(rx_buffer, FrameLength(rx_buffer))
           /\ \E decoded \in {"Event", "BLE"} :
                 /\ event_result' = decoded
                 /\ result' = try_read_result(data_result, decoded)
           /\ pc' = "read_return"
    /\ UNCHANGED <<chip_select, cs_ops, bus, spi_header, write_locals,
                   bytes_available, data_result, radio_side, clean, rx_at_call,
                   appended, window>>

\* lib.rs read, lines 162-164: chip-select high, the result is returned and
\* the call's locals go out of scope
read_end ==
    /\ pc = "read_return"
    /\ chip_select' = "high"
    /\ cs_ops' = Append(cs_ops, "set_high")
    /\ pc' = "idle"
    /\ bytes_available' = 0
    /\ data_result' = "none"
    /\ event_result' = "none"
    /\ spi_header' = NoHeader
    /\ take_len' = -1
    /\ bus' = <<>>
    /\ rx_at_call' = rx_buffer
    /\ data_ready' = FALSE
    /\ window' = NoWindow
    /\ UNCHANGED <<rx_buffer, result, write_locals, radio, sent, extracted,
                   clean, appended>>

----------------------------------------------------------------------------
(* Specification *)

\* BlueNRG::new, lines 173-190: an empty ring buffer over the caller's store
InitWith(store_len, streams) ==
    /\ chip_select \in {"high", "low"}
    /\ data_ready = FALSE
    /\ rx_buffer = EmptyBuffer(store_len)
    /\ pc = "idle"
    /\ hdr_len = 0
    /\ pay_len = 0
    /\ bytes_available = 0
    /\ data_result = "none"
    /\ event_result = "none"
    /\ spi_header = NoHeader
    /\ write_len = -1
    /\ result = "none"
    /\ cs_ops = <<>>
    /\ bus = <<>>
    /\ sent \in streams
    /\ radio = Flatten(sent)
    /\ extracted = <<>>
    /\ clean = TRUE
    /\ take_len = -1
    /\ rx_at_call = EmptyBuffer(store_len)
    /\ appended = <<>>
    /\ window = NoWindow

Init == InitWith(RxCapacity, Streams)

Next ==
    \/ write_begin
    \/ try_write_handshake
    \/ try_write_header
    \/ try_write_payload
    \/ write_end
    \/ read_begin
    \/ read_available_data_ready
    \/ read_available_data_handshake
    \/ read_available_data_loop
    \/ take_next_event
    \/ read_end

Spec == Init /\ [][Next]_vars

\* a backing store longer than the scratch array of take_next_event, and a
\* radio holding one frame that fills it
LargeCapacity == MAX_EVENT_SIZE + EVENT_PACKET_HEADER_LENGTH
LargeFrame ==
    Frame(CHOOSE c \in EventCodes : TRUE,
          [i \in 1..(LargeCapacity - EVENT_PACKET_HEADER_LENGTH) |-> 1])

InitLarge == InitWith(LargeCapacity, {<<LargeFrame>>})

SpecLarge == InitLarge /\ [][Next]_vars

\* read called over and over by a polling caller, with the readiness line
\* asserted, no bus fault, and every handshake answered with the ready marker
\* and a read capacity equal to the bytes the radio still holds
polling_ready == read_available_data_ready /\ data_ready'

polling_handshake ==
    /\ read_available_data_handshake
    /\ spi_header'[1] = BNRG_READY
    /\ bytes_available' = Len(radio)

polling_loop == read_available_data_loop /\ data_result' # "Comm"

NextPolling ==
    \/ read_begin
    \/ polling_ready
    \/ polling_handshake
    \/ polling_loop
    \/ take_next_event
    \/ read_end

\* the caller keeps invoking read and every call runs on: weak fairness
SpecPolling == Init /\ [][NextPolling]_vars /\ WF_vars(NextPolling)

\* the ring buffer on its own: windows of any allowed length are filled with
\* any bytes, and runs of any buffered length are taken
RingBytes == ParamBytes \cup FillerBytes
MaxAppended == RxCapacity + 2

\* next_mut_slice(n) with n <= next_contiguous_slice_len(), and its fill
ring_append ==
    /\ \E n \in 1..next_contiguous_slice_len(rx_buffer) :
          /\ Len(appended) + n <= MaxAppended
          /\ \E data \in [1..n -> RingBytes] :
                /\ rx_buffer' = FillWindow(rx_buffer, data)
                /\ appended' = appended \o data
    /\ UNCHANGED <<chip_select, data_ready, pc, hdr_len, pay_len,
                   bytes_available, data_result, event_result, spi_header,
                   write_len, result, cs_ops, bus, radio, sent, extracted,
                   clean, take_len, rx_at_call, window>>

\* take_slice(n, out) with n <= available_len()
ring_take ==
    /\ \E n \in 1..available_len(rx_buffer) :
          /\ extracted' = Append(extracted, TakenBytes(rx_buffer, n))
          /\ rx_buffer' = take_slice(rx_buffer, n)
    /\ UNCHANGED <<chip_select, data_ready, pc, hdr_len, pay_len,
                   bytes_available, data_result, event_result, spi_header,
                   write_len, result, cs_ops, bus, radio, sent, clean,
                   take_len, rx_at_call, appended, window>>

InitRing == InitWith(RxCapacity, {<<>>})

NextRing ==
    \/ ring_append
    \/ ring_take

SpecRing == InitRing /\ [][NextRing]_vars

----------------------------------------------------------------------------
(* Properties *)

Outcomes == {"Ok", "Event", "WouldBlock", "Comm", "BLE"}
InCall == pc \notin {"idle", "panic"}
AllOk(ops) == \A i \in 1..Len(ops) : ops[i].ok
IsPrefix(s, t) == Len(s) <= Len(t) /\ SubSeq(t, 1, Len(s)) = s
\* the elements of s occur in t, in the order of s
RECURSIVE Embeds(_, _)
Embeds(s, t) ==
    IF s = <<>> THEN TRUE
    ELSE IF t = <<>> THEN FALSE
    ELSE IF Head(s) = Head(t) THEN Embeds(Tail(s), Tail(t))
    ELSE Embeds(s, Tail(t))

\* C1: a call of write or read that returns, with whatever outcome, has driven
\* chip-select low exactly once and then high exactly once, and chip-select is
\* high when it returns; inside the call chip-select was driven low once
C1_ChipSelectOncePerCall ==
    /\ (pc = "idle" /\ result # "none") =>
           /\ result \in Outcomes
           /\ cs_ops = <<"set_low", "set_high">>
           /\ chip_select = "high"
    /\ InCall => (cs_ops = <<"set_low">> /\ chip_select = "low")

\* a call that ended in a hard communication error has returned
C1_Witness ==
    pc = "idle" /\ result = "Comm" /\ cs_ops = <<"set_low", "set_high">>

\* C2: take_next_event yields a frame or a decode error only when
\* available_len() >= header length + the parameter length peeked at offset 1;
\* with fewer bytes than the header, or than the whole frame, it reports
\* not-ready and leaves cursors, count and contents of the ring buffer alone
C2_NoFrameBeforeComplete ==
    [][pc = "take_next_event" =>
         LET avail == rx_buffer.count
             param_len == rx_buffer.store[((rx_buffer.read + 1) % Len(rx_buffer.store)) + 1]
             whole == /\ avail >= EVENT_PACKET_HEADER_LENGTH
                      /\ avail >= EVENT_PACKET_HEADER_LENGTH + param_len
         IN /\ (event_result' \in {"Event", "BLE"} => whole)
            /\ (rx_buffer' # rx_buffer => whole)
            /\ (~whole => (event_result' = "WouldBlock" /\ rx_buffer' = rx_buffer))]_vars

\* a header is buffered but its frame is not: not-ready, the buffer as it was
C2_Witness ==
    /\ pc = "read_return"
    /\ event_result = "WouldBlock"
    /\ rx_buffer.count >= EVENT_PACKET_HEADER_LENGTH
    /\ rx_buffer.count < EVENT_PACKET_HEADER_LENGTH + peek(rx_buffer, 1)

\* C3: when the radio's stream is a concatenation of frames and it is pulled
\* in chunks over successive read calls without a fault (each chunk no larger
\* than what the radio still holds), the frames extracted are the radio's
\* frames, in order, each once
C3_FramesReassembled ==
    clean => IsPrefix(extracted, sent)

\* C4: a frame that is whole in the ring buffer when read is called is
\* extracted and handed on by this call even when the pull reports not-ready
C4_BufferedFrameNotStarved ==
    (/\ pc = "read_return"
     /\ data_result = "WouldBlock"
     /\ rx_at_call.count >= EVENT_PACKET_HEADER_LENGTH
     /\ rx_at_call.count >= EVENT_PACKET_HEADER_LENGTH + peek(rx_at_call, 1))
    => /\ result \in {"Event", "BLE"}
       /\ extracted # <<>>
       /\ extracted[Len(extracted)] =
              TakenBytes(rx_at_call, EVENT_PACKET_HEADER_LENGTH + peek(rx_at_call, 1))

\* the readiness line was low, a whole frame was buffered, and it is returned
C4_Witness ==
    /\ pc = "read_return"
    /\ data_result = "WouldBlock"
    /\ ~data_ready
    /\ rx_at_call.count >= EVENT_PACKET_HEADER_LENGTH + peek(rx_at_call, 1)
    /\ result = "Event"

\* C5: read's result as a function of (pull result, extraction result): an
\* extracted frame wins; no frame and a pull that succeeded or was not ready
\* gives not-ready; no frame and a pull that failed gives that failure
C5_ReadResultTable ==
    pc = "read_return" =>
        /\ (event_result \in {"Event", "BLE"} => result = event_result)
        /\ (event_result = "WouldBlock" /\ data_result \in {"Ok", "WouldBlock"}
               => result = "WouldBlock")
        /\ (event_result = "WouldBlock" /\ data_result = "Comm" => result = "Comm")

\* the pull failed on the bus, nothing could be extracted: the failure is returned
C5_Witness ==
    /\ pc = "read_return"
    /\ event_result = "WouldBlock"
    /\ data_result = "Comm"
    /\ result = "Comm"

\* C6: a handshake transfer that completes with a reply whose byte 0 is not
\* 0x02 yields not-ready, not a hard error, in the write path and in the read
\* path, and the handshake stays the call's only bus transfer
C6_NotReadyReply ==
    (spi_status # -1 /\ spi_status # BNRG_READY) =>
        /\ pc \in {"write_return", "take_next_event", "read_return", "panic"}
        /\ Len(bus) = 1 /\ bus[1].op = "handshake" /\ bus[1].ok
        /\ (pc = "write_return" => result = "WouldBlock")
        /\ (pc \in {"take_next_event", "read_return"} => data_result = "WouldBlock")

\* a read whose handshake reply carried another status byte
C6_Witness ==
    /\ pc = "read_return"
    /\ spi_status = 255
    /\ data_result = "WouldBlock"
    /\ Len(bus) = 1

\* C7: a write whose handshake is ready with a write capacity below
\* len(header) + len(payload) returns not-ready, and the 5-byte handshake is
\* the only bus transfer of the call
C7_InsufficientCapacity ==
    (spi_status = BNRG_READY /\ write_len # -1 /\ write_len < hdr_len + pay_len) =>
        /\ pc = "write_return"
        /\ result = "WouldBlock"
        /\ bus = <<Handshake(<<WRITE_REQUEST, 0, 0, 0, 0>>, TRUE)>>

\* the capacity is one byte short of a header and a payload
C7_Witness ==
    /\ pc = "write_return"
    /\ spi_status = BNRG_READY
    /\ pay_len > 0
    /\ write_len = hdr_len + pay_len - 1
    /\ result = "WouldBlock"

\* C8: a write whose handshake is ready with a write capacity of at least
\* len(header) + len(payload), and whose transfers do not fault, returns
\* success after the handshake, one write of the header, one of the payload
C8_WriteSequence ==
    (/\ pc = "write_return"
     /\ spi_status = BNRG_READY
     /\ write_len >= hdr_len + pay_len
     /\ AllOk(bus))
    => /\ result = "Ok"
       /\ bus = <<Handshake(<<WRITE_REQUEST, 0, 0, 0, 0>>, TRUE),
                  BusWrite("write_header", hdr_len, TRUE),
                  BusWrite("write_payload", pay_len, TRUE)>>

\* the capacity equals the total length and the write succeeds
C8_Witness ==
    /\ pc = "write_return"
    /\ spi_status = BNRG_READY
    /\ write_len = hdr_len + pay_len
    /\ pay_len > 0
    /\ result = "Ok"
    /\ Len(bus) = 3

\* C9: a read called while the readiness line is low: the pull reports
\* not-ready, no bus transfer was made, the ring buffer is as it was
C9_CheapPoll ==
    (pc \in {"take_next_event", "read_handshake", "read_loop"} /\ ~data_ready) =>
        /\ pc = "take_next_event"
        /\ data_result = "WouldBlock"
        /\ bus = <<>>
        /\ rx_buffer = rx_at_call

\* the radio holds bytes, the line is low, the pull has reported not-ready
C9_Witness ==
    /\ pc = "take_next_event"
    /\ ~data_ready
    /\ radio # <<>>
    /\ data_result = "WouldBlock"
    /\ bus = <<>>

\* C10: the length take_next_event passes to take_slice is at most 128
C10_FrameFitsScratch ==
    take_len <= MAX_EVENT_SIZE

\* bytes by which the data transfers of a call raised the buffer's count
RECURSIVE Ingested(_)
Ingested(ops) ==
    IF ops = <<>> THEN 0
    ELSE (IF Head(ops).op = "data" THEN Head(ops).len ELSE 0) + Ingested(Tail(ops))

\* C11: the ring buffer's count of valid bytes is between 0 and its capacity,
\* and the windows a read call fills add up to no more than the capacity that
\* was free when the call began, whatever read capacity the radio reports
C11_CountWithinCapacity ==
    /\ rx_buffer.count >= 0
    /\ rx_buffer.count <= Capacity(rx_buffer)
    /\ Ingested(bus) <= Capacity(rx_at_call) - rx_at_call.count

\* C12: when windows are filled and runs are taken in any interleaving that
\* keeps to the contiguous length and the buffered count, the bytes taken,
\* followed by the bytes still buffered, are the bytes appended, in order,
\* also when a run taken lies across the end of the backing store
C12_TakenEqualsAppended ==
    appended = Flatten(extracted) \o TakenBytes(rx_buffer, rx_buffer.count)

\* the last run taken began before the end of the store and ended after it,
\* and its first and last bytes differ
C12_Witness ==
    /\ extracted # <<>>
    /\ LET last == extracted[Len(extracted)] IN
          /\ rx_buffer.read > 0
          /\ Len(last) > rx_buffer.read
          /\ last[1] # last[Len(last)]
    /\ Len(appended) > Capacity(rx_buffer)

\* C13: the handshake of a write call sends [0x0A,0,0,0,0] and that of a read
\* call [0x0B,0,0,0,0]; for a reply whose byte 0 is 0x02 the write path
\* decides on byte1 + 256*byte2 alone (it does not block exactly when that is
\* at least the total length) and the read path starts its counter at
\* byte3 + 256*byte4
C13_HandshakeWireFormat ==
    LET in_write == pc \in {"try_write", "write_header", "write_payload", "write_return"}
        wire_write == spi_header[2] + 256 * spi_header[3]
        wire_read == spi_header[4] + 256 * spi_header[5]
    IN /\ \A i \in 1..Len(bus) :
             bus[i].op = "handshake" =>
                 /\ i = 1
                 /\ bus[i].len = 5
                 /\ bus[i].tx = <<(IF in_write THEN 10 ELSE 11), 0, 0, 0, 0>>
       /\ (in_write /\ spi_header[1] = 2) =>
             /\ write_len = wire_write
             /\ (wire_write < hdr_len + pay_len) <=>
                    (pc = "write_return" /\ Len(bus) = 1 /\ result = "WouldBlock")
       /\ (pc = "read_loop" /\ Len(bus) = 1 /\ spi_header[1] = 2) =>
             bytes_available = wire_read

\* a write went through on a capacity carried by the high byte alone, while
\* the reply's read capacity was below the total length
C13_Witness ==
    /\ pc = "write_return"
    /\ spi_header = <<2, 0, 1, 0, 0>>
    /\ write_len = 256
    /\ result = "Ok"

\* C14: a bus transfer that faults inside a write call is the call's last bus
\* transfer (a faulted header is not followed by the payload), it is not
\* issued a second time, and the call returns the communication error, not
\* not-ready
C14_WriteFaultIsFinal ==
    LET in_write == pc \in {"try_write", "write_header", "write_payload", "write_return"}
    IN in_write =>
         /\ \A i, j \in 1..Len(bus) : bus[i].op = bus[j].op => i = j
         /\ \A i \in 1..Len(bus) :
               ~bus[i].ok => /\ i = Len(bus)
                             /\ pc = "write_return"
                             /\ result = "Comm"
                             /\ result # "WouldBlock"

\* the header's write faulted after a ready handshake with room for the frame
C14_Witness ==
    /\ pc = "write_return"
    /\ Len(bus) = 2
    /\ bus[1].ok
    /\ bus[2] = BusWrite("write_header", hdr_len, FALSE)
    /\ result = "Comm"

\* C15: every window the pull loop requests from the ring buffer has a length
\* between 1 and next_contiguous_slice_len() as it is at the request
C15_WindowWithinContiguous ==
    window # NoWindow =>
        /\ 1 <= window.len
        /\ window.len <= window.contiguous

\* C16: in the pull loop each transfer's length is at most the remaining-byte
\* counter, the counter then decreases by exactly that length and does not
\* underflow, and the loop is left only when the counter is 0 or the ring
\* buffer has no contiguous writable space
C16_CounterNeverUnderflows ==
    /\ window # NoWindow => window.len <= window.remaining
    /\ (pc = "read_loop" /\ window # NoWindow) =>
           /\ bytes_available = window.remaining - window.len
           /\ bytes_available >= 0
    /\ (pc = "take_next_event" /\ data_result = "Ok") =>
           (bytes_available = 0 \/ next_contiguous_slice_len(rx_buffer) = 0)

\* C17: within a read call the pull is over before the extraction is
\* attempted, so a frame that was not whole in the ring buffer when the call
\* began and is whole after the call's pull is extracted and returned by this
\* call
C17_PullBeforeExtraction ==
    /\ pc \in {"read_available_data", "read_handshake", "read_loop"} =>
           event_result = "none"
    /\ pc = "take_next_event" => (data_result # "none" /\ event_result = "none")
    /\ pc = "read_return" =>
           LET pulled == [rx_buffer EXCEPT !.read = rx_at_call.read,
                                           !.count = rx_at_call.count + Ingested(bus)]
               Whole(b) == /\ b.count >= EVENT_PACKET_HEADER_LENGTH
                           /\ b.count >= EVENT_PACKET_HEADER_LENGTH + peek(b, 1)
               len == EVENT_PACKET_HEADER_LENGTH + peek(pulled, 1)
           IN (~Whole(rx_at_call) /\ Whole(pulled) /\ len <= 128) =>
                  /\ result \in {"Event", "BLE"}
                  /\ extracted # <<>>
                  /\ extracted[Len(extracted)] = TakenBytes(pulled, len)

\* part of a frame was buffered when read was called, the call's pull brought
\* the rest, and the call returned the frame
C17_Witness ==
    /\ pc = "read_return"
    /\ rx_at_call.count > 0
    /\ rx_at_call.count < EVENT_PACKET_HEADER_LENGTH + peek(rx_at_call, 1)
    /\ data_result = "Ok"
    /\ result = "Event"
    /\ extracted[Len(extracted)] \in Frames

\* C18: in a read call chip-select is driven low only after the readiness
\* line was found asserted, and a read call that finds the line not asserted
\* has not touched chip-select
C18_PollBeforeChipSelect ==
    LET in_read == pc \in {"read_available_data", "read_handshake", "read_loop",
                           "take_next_event", "read_return"}
    IN in_read => (cs_ops # <<>> => data_ready)

\* C18, as amended: a read call drives chip-select low before it reads the
\* readiness line, whatever the line's level; a read call that finds the
\* line not asserted makes no bus transfer, and chip-select, low since the
\* call began, is driven high when the call returns
C18_ChipSelectBeforePoll ==
    [][/\ (pc = "read_available_data" /\ pc' # pc) =>
             /\ cs_ops = <<"set_low">>
             /\ chip_select = "low"
             /\ ~data_ready' => (bus' = <<>> /\ chip_select' = "low")
       /\ (pc = "read_return" /\ pc' = "idle" /\ ~data_ready) =>
             /\ bus = <<>>
             /\ cs_ops' = <<"set_low", "set_high">>
             /\ chip_select' = "high"]_vars

\* the readiness line was found low in a call that had driven chip-select low
C18_Witness ==
    /\ pc = "take_next_event"
    /\ ~data_ready
    /\ cs_ops = <<"set_low">>
    /\ chip_select = "low"
    /\ bus = <<>>

\* C19: every bus operation (handshake, header write, payload write, data
\* transfer) is issued while chip-select is low, after the call's one
\* set_low and before its set_high, and chip-select is high whenever a call
\* has returned
C19_BusOnlyWhileSelected ==
    [][/\ (bus' # bus /\ bus' # <<>>) =>
             /\ chip_select = "low"
             /\ chip_select' = "low"
             /\ cs_ops = <<"set_low">>
             /\ cs_ops' = <<"set_low">>
       /\ pc' = "idle" =>
             /\ chip_select' = "high"
             /\ cs_ops' = <<"set_low", "set_high">>
             /\ bus' = <<>>
       /\ pc = "idle" => (bus = <<>> /\ bus' = <<>>)]_vars

\* a write has sent the handshake, the header and the payload, all of them
\* with chip-select low since the call began
C19_Witness ==
    /\ pc = "write_return"
    /\ Len(bus) = 3
    /\ chip_select = "low"
    /\ cs_ops = <<"set_low">>

\* C20: when read is polled with the readiness line asserted, no bus fault
\* and honest ready handshakes, every frame the radio was given (each no
\* longer than the ring buffer and than 128 bytes) is eventually returned by
\* a read call, the frames in the radio's order
C20_EveryFrameReturned ==
    <>(Embeds(sent, extracted))

====
